---- MODULE Spec2Model ----
(***************************************************************************)
(* Arena allocation library (package nuke): the monotonic arena, the safe  *)
(* arena with its slab groups, and the generic entry points New, NewPOD,   *)
(* Make and MakePOD.  Memory is modelled byte by byte: an address is an    *)
(* integer, a buffer occupies a range of addresses, and the set dirty      *)
(* holds the addresses whose byte is not zero.  The concurrent wrapper is   *)
(* modelled with its mutex and the goroutines that call through it.        *)
(***************************************************************************)
EXTENDS Integers, Sequences, FiniteSets, TLC

VARIABLES
    arena,             \* which implementation stands behind the Arena interface
    podSlabs,          \* safeArena.podSlabs
    typedSlabs,        \* safeArena.typedSlabs
    initialTypedSlots, \* safeArena.initialTypedSlots
    buffers,           \* monotonicArena.buffers
    releaseWhenReset,  \* monotonicArena.releaseWhenReset
    handedOut,         \* addresses inside regions returned from arena storage since the last Reset
    regions,           \* how many such regions there are
    dirty,             \* addresses whose byte is not zero
    ret,               \* what the most recent call returned
    fault,             \* the fault (panic) the most recent call raised, or "none"
    handle,            \* the Arena the program holds: how many concurrentArena layers wrap the arena
    mtx,               \* concurrentArena.mtx: the goroutine that holds it, or Unlocked
    goroutine,         \* each goroutine's position in its call through the wrapper
    acquired,          \* goroutines that took the mutex and have not yet returned from the wrapped call, oldest first
    calls              \* counts of calls issued: through the wrapper, and of NewConcurrentArena

\* the state of the concurrent wrapper and of its callers
concVars == <<handle, mtx, goroutine, acquired, calls>>

vars == <<arena, podSlabs, typedSlabs, initialTypedSlots, buffers,
          releaseWhenReset, handedOut, regions, dirty, ret, fault,
          handle, mtx, goroutine, acquired, calls>>

(***************************************************************************)
(* Bounds of the model.                                                    *)
(***************************************************************************)
\* most slabs a slab group holds at once
MaxSlabs == 3
\* most regions handed out between two resets
MaxLive == 2
\* most non-zero bytes at once
MaxDirty == 1
\* largest capacity (and length) asked of Make and MakePOD
MaxCap == 2
\* most calls issued through a concurrent wrapper
MaxCalls == 3
\* most applications of NewConcurrentArena
MaxWraps == 2
\* goroutines calling through a concurrent wrapper
NumGoroutines == 2
\* largest totalBytes of the slab group that is exercised on its own
MaxGroupBytes == 16
\* most slabs that group holds at once
MaxGroupSlabs == 4
\* longest slice asked of the slab group whose slabs are placed at any address
MaxPlacedLen == 4
\* deepest nesting of arrays and structs in the types that are introspected
MaxTypeDepth == 2
\* largest request made of a single slab
MaxRequest == 5

\* Options.InitialBytes of the slab group that is exercised on its own
GroupInitialBytesChoices == {4, 8}
\* byte lengths of the single slab that is exercised on its own
SlabBytesChoices == {16}
\* where the runtime may place that slab, relative to a 2*MaxAlign boundary
SlabMisalignChoices == 0 .. 7
\* the alignments reflect.Type.Align reports
AlignChoices == {1, 2, 4, 8}

\* Options.InitialBytes offered to MakeSafeArenaWithOptions
InitialBytesChoices == {4}
\* Options.InitialTypedSlots offered to MakeSafeArenaWithOptions
InitialTypedSlotsChoices == {2}
\* bufferSize offered to NewMonotonicArena
BufferSizeChoices == {4}
\* bufferCount offered to NewMonotonicArena
BufferCountChoices == {1, 2}

(***************************************************************************)
(* Types, as reflect.Type reports them on a 32-bit target.  A type is a    *)
(* term: a basic kind, an array of an element type, or a struct of fields. *)
(***************************************************************************)
Basic(kind) == [kind |-> kind]
ArrayOf(len, elem) == [kind |-> "Array", len |-> len, elem |-> elem]
StructOf(fields) == [kind |-> "Struct", fields |-> fields]

\* the types the callers of the arenas allocate
Types == {Basic("Bool"), Basic("Int"), ArrayOf(1, Basic("Int")), Basic("Ptr"),
          Basic("String"), Basic("Slice"), Basic("Map"), Basic("Chan"),
          Basic("Func"), StructOf(<<Basic("Int")>>)}

Kind(ty) == ty.kind

Elem(ty) == ty.elem

RECURSIVE Align(_)
RECURSIVE MaxFieldAlign(_)
MaxFieldAlign(fields) ==
    IF fields = <<>> THEN 1
    ELSE LET a == Align(Head(fields))
             b == MaxFieldAlign(Tail(fields))
         IN  IF a > b THEN a ELSE b

Align(ty) ==
    CASE Kind(ty) = "Bool" -> 1
      [] Kind(ty) = "Array" -> Align(Elem(ty))
      [] Kind(ty) = "Struct" -> MaxFieldAlign(ty.fields)
      [] OTHER -> 4

\* n rounded up to a multiple of a
RoundUp(n, a) == ((n + a - 1) \div a) * a

RECURSIVE Size(_)
RECURSIVE FieldsEnd(_, _)
\* where the fields end when they are laid out from offset at
FieldsEnd(fields, at) ==
    IF fields = <<>> THEN at
    ELSE FieldsEnd(Tail(fields), RoundUp(at, Align(Head(fields))) + Size(Head(fields)))

Size(ty) ==
    CASE Kind(ty) = "Bool" -> 1
      [] Kind(ty) = "String" -> 8
      [] Kind(ty) = "Slice" -> 12
      [] Kind(ty) = "Array" -> ty.len * Size(Elem(ty))
      [] Kind(ty) = "Struct" -> RoundUp(FieldsEnd(ty.fields, 0), Align(ty))
      [] OTHER -> 4

\* the largest alignment of any type
MaxAlign == Align(Basic("Int"))

NumericKinds == {"Bool", "Int", "Int8", "Int16", "Int32", "Int64", "Uint",
                 "Uint8", "Uint16", "Uint32", "Uint64", "Uintptr", "Float32",
                 "Float64", "Complex64", "Complex128"}

RECURSIVE isPOD_acceptsStruct(_)
\* a fast check that takes a struct for pointer-free
isPOD_acceptsStruct(ty) ==
    \/ Kind(ty) \in NumericKinds \cup {"Struct"}
    \/ (Kind(ty) = "Array" /\ isPOD_acceptsStruct(Elem(ty)))

RECURSIVE isPOD(_)
\* Fast check for whether a type is pointer-free; any struct counts as not.
isPOD(ty) ==
    \/ Kind(ty) \in NumericKinds
    \/ (Kind(ty) = "Array" /\ isPOD(Elem(ty)))

\* the kinds assertPODImpl reports as holding pointers
PointerKinds == {"Slice", "String", "Interface", "Chan", "Func", "Map", "Ptr",
                 "UnsafePointer"}

\* Text is modelled as a sequence of pieces; concatenation is \o and the
\* empty sequence is the empty string.
Digit == <<"0", "1", "2", "3", "4", "5", "6", "7", "8", "9">>

RECURSIVE Itoa(_)
\* a number in decimal
Itoa(n) ==
    IF n < 10 THEN <<Digit[n + 1]>>
    ELSE Itoa(n \div 10) \o <<Digit[(n % 10) + 1]>>

\* the names of a struct's fields, in declaration order
FieldNames == <<"a", "b">>

\* reflect.VisibleFields(ty): every field, unexported ones too, in declaration
\* order (the structs of the model embed nothing)
VisibleFields(ty) ==
    [i \in 1 .. Len(ty.fields) |-> [Name |-> FieldNames[i], Type |-> ty.fields[i]]]

\* how a basic kind's type is written
KindString(kind) ==
    CASE kind = "Bool" -> "bool"
      [] kind = "Int" -> "int"
      [] kind = "Float64" -> "float64"
      [] kind = "Uintptr" -> "uintptr"
      [] kind = "Ptr" -> "*int"
      [] kind = "String" -> "string"
      [] kind = "Slice" -> "[]bool"
      [] kind = "Map" -> "map[int]int"
      [] kind = "Chan" -> "chan int"
      [] kind = "Func" -> "func()"
      [] kind = "Interface" -> "interface {}"
      [] kind = "UnsafePointer" -> "unsafe.Pointer"
      [] OTHER -> "invalid"

RECURSIVE TypeString(_)
RECURSIVE FieldStrings(_)
\* the fields of a struct type as they are written between its braces
FieldStrings(fields) ==
    IF fields = <<>> THEN <<>>
    ELSE <<" ", Head(fields).Name, " ">> \o TypeString(Head(fields).Type)
         \o (IF Tail(fields) = <<>> THEN <<" ">> ELSE <<";">>)
         \o FieldStrings(Tail(fields))

\* reflect.Type.String(): how a type is written
TypeString(ty) ==
    CASE Kind(ty) = "Array" -> <<"[">> \o Itoa(ty.len) \o <<"]">> \o TypeString(Elem(ty))
      [] Kind(ty) = "Struct" -> <<"struct {">> \o FieldStrings(VisibleFields(ty)) \o <<"}">>
      [] OTHER -> <<KindString(Kind(ty))>>

\* reflect.Zero(ty).Interface(): the zero value of ty boxed in an interface.
\* The zero value of an interface type is the nil interface, which has no
\* dynamic type.
ZeroInterface(ty) ==
    IF Kind(ty) = "Interface" THEN [nil |-> TRUE, dyn |-> Basic("Invalid")]
    ELSE [nil |-> FALSE, dyn |-> ty]

\* fmt's %T: the dynamic type of the value, "<nil>" for the nil interface
FormatT(tyVal) == IF tyVal.nil THEN <<"<nil>">> ELSE TypeString(tyVal.dyn)

\* fmt's %q of a string
FormatQ(str) == <<"\"", str, "\"">>

\* full introspection that has lost its fast path and reports every array
assertPODImpl_reportsArrays(ty) ==
    CASE Kind(ty) \in PointerKinds ->
            <<"type ">> \o FormatT(ZeroInterface(ty)) \o <<" contains pointers">>
      [] Kind(ty) = "Array" -> <<"array element ">>
      [] OTHER -> <<>>

RECURSIVE assertPODImpl(_)
RECURSIVE assertPODFields_firstFieldOnly(_, _)
\* a struct case that looks at the first field alone
assertPODFields_firstFieldOnly(ty, fields) ==
    IF fields = <<>> THEN <<>>
    ELSE LET problem == assertPODImpl(Head(fields).Type)
         IN  IF problem # <<>>
             THEN <<"struct ">> \o FormatT(ZeroInterface(ty)) \o <<" field ">>
                  \o FormatQ(Head(fields).Name) \o <<": ">> \o problem
             ELSE <<>>

RECURSIVE assertPODFields(_, _)
\* the struct case of assertPODImpl: the problem of the first field that has
\* one, under the heading of the struct and the field
assertPODFields(ty, fields) ==
    IF fields = <<>> THEN <<>>
    ELSE LET problem == assertPODImpl(Head(fields).Type)
         IN  IF problem # <<>>
             THEN <<"struct ">> \o FormatT(ZeroInterface(ty)) \o <<" field ">>
                  \o FormatQ(Head(fields).Name) \o <<": ">> \o problem
             ELSE assertPODFields(ty, Tail(fields))

\* The problem found in a type, as the pieces of the message; the empty
\* sequence is the empty string (no problem).
assertPODImpl(ty) ==
    IF isPOD(ty) THEN <<>>
    ELSE CASE Kind(ty) \in PointerKinds ->
                <<"type ">> \o FormatT(ZeroInterface(ty)) \o <<" contains pointers">>
           [] Kind(ty) = "Array" ->
                LET problem == assertPODImpl(Elem(ty))
                IN  IF problem # <<>> THEN <<"array element ">> \o problem ELSE <<>>
           [] Kind(ty) = "Struct" -> assertPODFields(ty, VisibleFields(ty))
           [] OTHER -> <<>>

\* one kind of each sort: numeric kinds and the kinds that hold pointers
BasicKinds == {"Bool", "Int", "Float64", "Uintptr", "Ptr", "String", "Slice",
               "Map", "Chan", "Func", "Interface", "UnsafePointer"}

RECURSIVE TypeTerms(_)
\* the types nested at most depth deep: arrays of one element, structs of one
\* field, and structs of two fields of basic kinds
TypeTerms(depth) ==
    IF depth = 0 THEN {Basic(k) : k \in BasicKinds}
    ELSE LET sub == TypeTerms(depth - 1)
         IN  sub \cup {ArrayOf(1, t) : t \in sub}
                 \cup {StructOf(<<t>>) : t \in sub}
                 \cup {StructOf(<<Basic(j), Basic(k)>>) : j \in BasicKinds, k \in BasicKinds}

\* the types handed to AssertPlainOldData
AllTypes == TypeTerms(MaxTypeDepth)

(***************************************************************************)
(* Addresses.  Every buffer the runtime makes lies in a region of its own; *)
(* where in the region it starts (its misalignment) is the runtime's       *)
(* choice.  Address 0 is nil.                                              *)
(***************************************************************************)
NilPtr == 0
RegionStride == MaxAlign * 32
BaseMisalign == {0}
RegionBase(id) == (id + 1) * RegionStride
\* the regions of one slab group: the POD group is group 0, the typed group of
\* the k-th type is group k
TypeOrder == <<Basic("Bool"), Basic("Int"), ArrayOf(1, Basic("Int")), Basic("Ptr"),
               Basic("String"), Basic("Slice"), Basic("Map"), Basic("Chan"),
               Basic("Func"), StructOf(<<Basic("Int")>>)>>
TypeIndex(ty) == CHOOSE k \in 1 .. Len(TypeOrder) : TypeOrder[k] = ty
GroupRegions(g) == (g * (MaxSlabs + 2)) .. (g * (MaxSlabs + 2) + MaxSlabs + 1)
\* the host heap's objects lie above every region an arena buffer can take
HeapPtr == RegionBase((Cardinality(Types) + 1) * (MaxSlabs + 2))
Range(addr, len) == addr .. (addr + len - 1)
\* Go's integer division truncates toward zero
GoDiv(a, b) == IF a >= 0 THEN a \div b ELSE -((-a) \div b)

(***************************************************************************)
(* safeSlab                                                                *)
(***************************************************************************)
makeSafeSlab(tySize, slots, id, mis) ==
    [id |-> id, buf |-> RegionBase(id) + mis, size |-> slots * tySize, offset |-> 0]

safeSlab_getAlwaysAligned(s, size) ==
    IF s.offset + size > s.size
    THEN [ptr |-> NilPtr, slab |-> s]
    ELSE [ptr |-> s.buf + s.offset, slab |-> [s EXCEPT !.offset = @ + size]]

\* a slab that hands out the region without looking at the room left
safeSlab_getWithAlignment_unchecked(s, size, align) ==
    LET misalignment == (s.buf + s.offset + size) % align
        realign == IF align # 1 /\ misalignment # 0 THEN align - misalignment ELSE 0
    IN  [ptr |-> s.buf + s.offset + realign,
         slab |-> [s EXCEPT !.offset = s.offset + size + realign]]

\* padding that aligns the start of the region, as a front-aligned bump
\* allocator does
safeSlab_getWithAlignment_alignsStart(s, size, align) ==
    LET misalignment == (s.buf + s.offset) % align
        realign == IF align # 1 /\ misalignment # 0 THEN align - misalignment ELSE 0
        newOffset == s.offset + size + realign
    IN  IF newOffset > s.size
        THEN [ptr |-> NilPtr, slab |-> s]
        ELSE [ptr |-> s.buf + s.offset + realign,
              slab |-> [s EXCEPT !.offset = newOffset]]

safeSlab_getWithAlignment(s, size, align) ==
    LET misalignment == (s.buf + s.offset + size) % align
        realign == IF align # 1 /\ misalignment # 0 THEN align - misalignment ELSE 0
        newOffset == s.offset + size + realign
    IN  IF newOffset > s.size
        THEN [ptr |-> NilPtr, slab |-> s]
        ELSE [ptr |-> s.buf + s.offset + realign,
              slab |-> [s EXCEPT !.offset = newOffset]]

\* zeroing only after the offset is back at 0
safeSlab_resetZeroed_afterRewind(s) == Range(s.buf, 0)

\* the bytes safeSlab.reset zeroes
safeSlab_resetZeroed(s) == Range(s.buf, s.offset)

safeSlab_seemsFull(s) == s.offset > (s.size * 3) \div 4

(***************************************************************************)
(* safeSlabGroup.  firstWithFreeSpace and the loop index count from 0 as   *)
(* in the source; the sequence slabs is indexed from 1.                    *)
(***************************************************************************)
makeSafeSlabGroup(tySize, initialSlots, id, mis) ==
    [slabs |-> <<makeSafeSlab(tySize, initialSlots, id, mis)>>,
     totalBytes |-> initialSlots * tySize,
     firstWithFreeSpace |-> 0]

\* an exchange that writes one of its two places only
Swap_overwrites(seq, i, j) == [seq EXCEPT ![i] = seq[j]]

\* the exchange of two elements of a slice
Swap(seq, i, j) == [seq EXCEPT ![i] = seq[j], ![j] = seq[i]]

RECURSIVE scanWithAlignment(_, _, _, _)
scanWithAlignment(sg, i, size, align) ==
    IF i >= Len(sg.slabs)
    THEN [ptr |-> NilPtr, sg |-> sg]
    ELSE LET r == safeSlab_getWithAlignment(sg.slabs[i + 1], size, align)
         IN  IF r.ptr # NilPtr
             THEN [ptr |-> r.ptr, sg |-> [sg EXCEPT !.slabs[i + 1] = r.slab]]
             ELSE IF safeSlab_seemsFull(sg.slabs[i + 1])
                  THEN scanWithAlignment(
                           [sg EXCEPT
                              !.slabs = Swap(@, sg.firstWithFreeSpace + 1, i + 1),
                              !.firstWithFreeSpace = @ + 1],
                           i + 1, size, align)
                  ELSE scanWithAlignment(sg, i + 1, size, align)

safeSlabGroup_getWithAlignment(sg, size, align) ==
    scanWithAlignment(sg, sg.firstWithFreeSpace, size, align)

RECURSIVE scanAlwaysAligned(_, _, _)
scanAlwaysAligned(sg, i, size) ==
    IF i >= Len(sg.slabs)
    THEN [ptr |-> NilPtr, sg |-> sg]
    ELSE LET r == safeSlab_getAlwaysAligned(sg.slabs[i + 1], size)
         IN  IF r.ptr # NilPtr
             THEN [ptr |-> r.ptr, sg |-> [sg EXCEPT !.slabs[i + 1] = r.slab]]
             ELSE IF safeSlab_seemsFull(sg.slabs[i + 1])
                  THEN scanAlwaysAligned(
                           [sg EXCEPT
                              !.slabs = Swap(@, sg.firstWithFreeSpace + 1, i + 1),
                              !.firstWithFreeSpace = @ + 1],
                           i + 1, size)
                  ELSE scanAlwaysAligned(sg, i + 1, size)

safeSlabGroup_getAlwaysAligned(sg, size) ==
    scanAlwaysAligned(sg, sg.firstWithFreeSpace, size)

\* the region a new slab of group g takes: the lowest one no slab of it holds
FreshId(sg, g) ==
    LET held == {sg.slabs[k].id : k \in 1 .. Len(sg.slabs)}
        free == GroupRegions(g) \ held
    IN  CHOOSE id \in free : \A other \in free : id <= other

safeSlabGroup_grow(sg, tySize, minNewSlots, g, mis) ==
    LET currentTotalSlots == GoDiv(sg.totalBytes, tySize)
        newSlots == IF currentTotalSlots > minNewSlots
                    THEN currentTotalSlots ELSE minNewSlots
    IN  [sg EXCEPT
           !.slabs = Append(@, makeSafeSlab(tySize, newSlots, FreshId(sg, g), mis)),
           !.totalBytes = @ + newSlots * tySize]

\* the bytes of the slab a growth has just appended
LastSlabBytes(sg) == Range(sg.slabs[Len(sg.slabs)].buf, sg.slabs[Len(sg.slabs)].size)

safeSlabGroup_getTyped(sg, ty, n, g, mis) ==
    LET r1 == safeSlabGroup_getAlwaysAligned(sg, Size(ty) * n)
    IN  IF r1.ptr # NilPtr
        THEN [ptr |-> r1.ptr, sg |-> r1.sg, fault |-> "none", fresh |-> {}, grew |-> FALSE]
        ELSE LET grown == safeSlabGroup_grow(r1.sg, Size(ty), n, g, mis)
                 r2 == safeSlabGroup_getAlwaysAligned(grown, Size(ty) * n)
             IN  [ptr |-> r2.ptr, sg |-> r2.sg,
                  fault |-> IF r2.ptr = NilPtr THEN "slab allocation failed!" ELSE "none",
                  fresh |-> LastSlabBytes(grown), grew |-> TRUE]

safeSlabGroup_getPOD(sg, ty, n, mis) ==
    LET size == Size(ty)
        align == Align(ty)
        r1 == safeSlabGroup_getWithAlignment(sg, size, align)
    IN  IF r1.ptr # NilPtr
        THEN [ptr |-> r1.ptr, sg |-> r1.sg, fault |-> "none", fresh |-> {}, grew |-> FALSE]
        ELSE LET grown == safeSlabGroup_grow(r1.sg, 1, (n + 1) * size, 0, mis)
                 r2 == safeSlabGroup_getWithAlignment(grown, size, align)
             IN  [ptr |-> r2.ptr, sg |-> r2.sg,
                  fault |-> IF r2.ptr = NilPtr THEN "slab allocation failed!" ELSE "none",
                  fresh |-> LastSlabBytes(grown), grew |-> TRUE]

RECURSIVE SumOffsets(_)
SumOffsets(slabs) ==
    IF slabs = <<>> THEN 0 ELSE Head(slabs).offset + SumOffsets(Tail(slabs))

\* safeSlab.reset applied to every slab: the bytes zeroed, then the offsets
safeSlabGroup_resetZeroed(sg) ==
    UNION {safeSlab_resetZeroed(sg.slabs[k]) : k \in 1 .. Len(sg.slabs)}

\* a shrink step that removes the slab at the front
safeSlabGroup_reset_dropsFirst(sg) ==
    LET highWaterMarkBytes == SumOffsets(sg.slabs)
        cleared == [k \in 1 .. Len(sg.slabs) |-> [sg.slabs[k] EXCEPT !.offset = 0]]
    IN  IF Len(sg.slabs) > 1 /\ highWaterMarkBytes * 4 < sg.totalBytes
        THEN [sg EXCEPT
                !.totalBytes = @ - sg.slabs[Len(sg.slabs)].size,
                !.slabs = SubSeq(cleared, 2, Len(cleared))]
        ELSE [sg EXCEPT !.slabs = cleared]

safeSlabGroup_reset(sg) ==
    LET highWaterMarkBytes == SumOffsets(sg.slabs)
        cleared == [k \in 1 .. Len(sg.slabs) |-> [sg.slabs[k] EXCEPT !.offset = 0]]
    IN  IF Len(sg.slabs) > 1 /\ highWaterMarkBytes * 4 < sg.totalBytes
        THEN [sg EXCEPT
                !.totalBytes = @ - sg.slabs[Len(sg.slabs)].size,
                !.slabs = SubSeq(cleared, 1, Len(cleared) - 1)]
        ELSE [sg EXCEPT !.slabs = cleared]

(***************************************************************************)
(* safeArena                                                               *)
(***************************************************************************)
\* A nil map: reading it finds nothing, writing to it faults.
NilMap == [isNil |-> TRUE, groups |-> <<>>]

MakeSafeArenaWithOptions(initialBytes, slots, mis) ==
    [podSlabs |-> [slabs |-> <<makeSafeSlab(1, initialBytes, 0, mis)>>,
                   totalBytes |-> 0,
                   firstWithFreeSpace |-> 0],
     typedSlabs |-> NilMap,
     initialTypedSlots |-> slots]

\* One call's outcome: the pointer, the arena's fields after it, the fault it
\* raised, and the bytes of the buffers it made (fresh from the runtime, zero).
safeArena_getPOD(ty, n, mis) ==
    LET r == safeSlabGroup_getPOD(podSlabs, ty, n, mis)
    IN  [ptr |-> r.ptr, where |-> "arena", fault |-> r.fault, fresh |-> r.fresh,
         grew |-> r.grew, podSlabs |-> r.sg, typedSlabs |-> typedSlabs,
         buffers |-> buffers]

safeArena_getTyped(ty, n, mis) ==
    IF isPOD(ty)
    THEN safeArena_getPOD(ty, n, mis)
    ELSE LET known == ty \in DOMAIN typedSlabs.groups
             newGroup == makeSafeSlabGroup(Size(ty), initialTypedSlots,
                                           FreshId([slabs |-> <<>>], TypeIndex(ty)), mis)
         IN  IF ~known /\ typedSlabs.isNil
             THEN [ptr |-> NilPtr, where |-> "arena",
                   fault |-> "assignment to entry in nil map", fresh |-> {},
                   grew |-> FALSE, podSlabs |-> podSlabs, typedSlabs |-> typedSlabs,
                   buffers |-> buffers]
             ELSE LET group == IF known THEN typedSlabs.groups[ty] ELSE newGroup
                      r == safeSlabGroup_getTyped(group, ty, n, TypeIndex(ty), mis)
                  IN  [ptr |-> r.ptr, where |-> "arena", fault |-> r.fault,
                       fresh |-> r.fresh \cup (IF known THEN {} ELSE LastSlabBytes(newGroup)),
                       grew |-> r.grew, podSlabs |-> podSlabs,
                       typedSlabs |-> [isNil |-> FALSE,
                                       groups |-> [t \in DOMAIN typedSlabs.groups \cup {ty} |->
                                                     IF t = ty THEN r.sg
                                                     ELSE typedSlabs.groups[t]]],
                       buffers |-> buffers]

safeArena_ResetZeroed ==
    safeSlabGroup_resetZeroed(podSlabs)
    \cup UNION {safeSlabGroup_resetZeroed(typedSlabs.groups[t]) : t \in DOMAIN typedSlabs.groups}

safeArena_Reset ==
    [podSlabs |-> safeSlabGroup_reset(podSlabs),
     typedSlabs |-> [typedSlabs EXCEPT
                       !.groups = [t \in DOMAIN typedSlabs.groups |->
                                     safeSlabGroup_reset(typedSlabs.groups[t])]],
     buffers |-> buffers,
     zeroed |-> safeArena_ResetZeroed]

(***************************************************************************)
(* monotonicArena.  Buffer i takes region i - 1 when it is first touched.  *)
(***************************************************************************)
newMonotonicBuffer(size) == [ptr |-> NilPtr, offset |-> 0, size |-> size]

NewMonotonicArena(bufferSize, bufferCount) ==
    [k \in 1 .. bufferCount |-> newMonotonicBuffer(bufferSize)]

monotonicBuffer_availableBytes(s) == s.size - s.offset

\* the buffer once its backing storage exists
monotonicBuffer_backed(s, base) == IF s.ptr = NilPtr THEN [s EXCEPT !.ptr = base] ELSE s

\* an alloc that pads the region so that its end is aligned, as a slab does
monotonicBuffer_alloc_alignsEnd(s, size, alignment, base) ==
    LET b == monotonicBuffer_backed(s, base)
        misalignment == (b.ptr + b.offset + size) % alignment
        realign == IF alignment # 1 /\ misalignment # 0
                   THEN alignment - misalignment ELSE 0
        allocSize == size + realign
    IN  IF monotonicBuffer_availableBytes(b) < allocSize
        THEN [ptr |-> NilPtr, ok |-> FALSE, buf |-> b]
        ELSE [ptr |-> b.ptr + b.offset + realign, ok |-> TRUE,
              buf |-> [b EXCEPT !.offset = @ + allocSize]]

\* an alloc that wants one byte to spare
monotonicBuffer_alloc_rejectsExactFit(s, size, alignment, base) ==
    LET b == monotonicBuffer_backed(s, base)
        misalignment == (b.ptr + b.offset) % alignment
        realign == IF alignment # 1 /\ misalignment # 0
                   THEN alignment - misalignment ELSE 0
        allocSize == size + realign
    IN  IF monotonicBuffer_availableBytes(b) <= allocSize
        THEN [ptr |-> NilPtr, ok |-> FALSE, buf |-> b]
        ELSE [ptr |-> b.ptr + b.offset + realign, ok |-> TRUE,
              buf |-> [b EXCEPT !.offset = @ + allocSize]]

monotonicBuffer_alloc(s, size, alignment, base) ==
    LET b == monotonicBuffer_backed(s, base)
        misalignment == (b.ptr + b.offset) % alignment
        realign == IF alignment # 1 /\ misalignment # 0
                   THEN alignment - misalignment ELSE 0
        allocSize == size + realign
    IN  IF monotonicBuffer_availableBytes(b) < allocSize
        THEN [ptr |-> NilPtr, ok |-> FALSE, buf |-> b]
        ELSE [ptr |-> b.ptr + b.offset + realign, ok |-> TRUE,
              buf |-> [b EXCEPT !.offset = @ + allocSize]]

\* the bytes zeroOutBuffer zeroes
monotonicBuffer_zeroOutBuffer(s) == Range(s.ptr, s.offset)

\* the buffer after reset, and the bytes reset zeroed
monotonicBuffer_reset(s, release) ==
    IF s.offset = 0
    THEN [buf |-> s, zeroed |-> {}]
    ELSE LET rewound == [s EXCEPT !.offset = 0]
         IN  IF release
             THEN [buf |-> [rewound EXCEPT !.ptr = NilPtr], zeroed |-> {}]
             ELSE [buf |-> rewound, zeroed |-> monotonicBuffer_zeroOutBuffer(rewound)]

RECURSIVE scanBuffers_fromLast(_, _, _, _, _, _)
\* a scan that tries the buffers from the last one down
scanBuffers_fromLast(bufs, i, size, align, misf, fresh) ==
    IF i > Len(bufs)
    THEN [ptr |-> NilPtr, buffers |-> bufs, fresh |-> fresh]
    ELSE LET k == Len(bufs) + 1 - i
             r == monotonicBuffer_alloc(bufs[k], size, align, RegionBase(k - 1) + misf[k])
             made == IF bufs[k].ptr = NilPtr THEN Range(r.buf.ptr, r.buf.size) ELSE {}
             after == [bufs EXCEPT ![k] = r.buf]
         IN  IF r.ok
             THEN [ptr |-> r.ptr, buffers |-> after, fresh |-> fresh \cup made]
             ELSE scanBuffers_fromLast(after, i + 1, size, align, misf, fresh \cup made)

RECURSIVE scanBuffers(_, _, _, _, _, _)
scanBuffers(bufs, i, size, align, misf, fresh) ==
    IF i > Len(bufs)
    THEN [ptr |-> NilPtr, buffers |-> bufs, fresh |-> fresh]
    ELSE LET r == monotonicBuffer_alloc(bufs[i], size, align, RegionBase(i - 1) + misf[i])
             made == IF bufs[i].ptr = NilPtr THEN Range(r.buf.ptr, r.buf.size) ELSE {}
             after == [bufs EXCEPT ![i] = r.buf]
         IN  IF r.ok
             THEN [ptr |-> r.ptr, buffers |-> after, fresh |-> fresh \cup made]
             ELSE scanBuffers(after, i + 1, size, align, misf, fresh \cup made)

monotonicArena_getPOD(size, align, misf) ==
    LET r == scanBuffers(buffers, 1, size, align, misf, {})
    IN  [ptr |-> r.ptr, where |-> "arena", fault |-> "none", fresh |-> r.fresh,
         grew |-> FALSE, podSlabs |-> podSlabs, typedSlabs |-> typedSlabs,
         buffers |-> r.buffers]

monotonicArena_getTyped(ty, n, misf) ==
    IF isPOD(ty)
    THEN monotonicArena_getPOD(Size(ty) * n, Align(ty), misf)
    ELSE [ptr |-> HeapPtr, where |-> "heap", fault |-> "none", fresh |-> {},
          grew |-> FALSE, podSlabs |-> podSlabs, typedSlabs |-> typedSlabs,
          buffers |-> buffers]

monotonicArena_Reset ==
    [podSlabs |-> podSlabs,
     typedSlabs |-> typedSlabs,
     buffers |-> [k \in 1 .. Len(buffers) |->
                    monotonicBuffer_reset(buffers[k], releaseWhenReset).buf],
     zeroed |-> UNION {monotonicBuffer_reset(buffers[k], releaseWhenReset).zeroed :
                         k \in 1 .. Len(buffers)}]

(***************************************************************************)
(* The Arena interface and the generic entry points.                       *)
(***************************************************************************)
\* where the runtime places the buffers a call makes: one choice per buffer
\* the call can make (the safe arena makes at most one slab per call)
Placements ==
    IF arena = "safe" THEN [1 .. 1 -> BaseMisalign]
    ELSE [1 .. Len(buffers) -> BaseMisalign]

Arena_getTyped(ty, n, m) ==
    IF arena = "safe" THEN safeArena_getTyped(ty, n, m[1])
    ELSE monotonicArena_getTyped(ty, n, m)

Arena_getPOD(ty, n, m) ==
    IF arena = "safe" THEN safeArena_getPOD(ty, n, m[1])
    ELSE monotonicArena_getPOD(Size(ty), Align(ty), m)

Arena_Reset == IF arena = "safe" THEN safeArena_Reset ELSE monotonicArena_Reset

NoRet(op) == [op |-> op, where |-> "none", addr |-> NilPtr, zero |-> TRUE,
              disjoint |-> TRUE]

\* The caller's view of a finished call: r is the arena's outcome, lenBytes the
\* bytes of the value or of the slice's length, capBytes those of its capacity.
\* Of a region of arena storage the caller's view records whether it read as
\* zero and whether it shared no byte with a region returned since the last
\* Reset; the extent of a host-heap object is the host's business.
Returned(r, lenBytes, capBytes, sliceFault) ==
    LET raised == IF r.fault # "none" THEN r.fault ELSE sliceFault
        where == IF r.ptr = NilPtr THEN "nil" ELSE r.where
        region == Range(r.ptr, lenBytes)
    IN  /\ Len(r.podSlabs.slabs) <= MaxSlabs
        /\ \A t \in DOMAIN r.typedSlabs.groups :
               Len(r.typedSlabs.groups[t].slabs) <= MaxSlabs
        /\ podSlabs' = r.podSlabs
        /\ typedSlabs' = r.typedSlabs
        /\ buffers' = r.buffers
        /\ dirty' = dirty \ r.fresh
        /\ fault' = raised
        /\ IF raised # "none"
           THEN ret' = NoRet("alloc") /\ handedOut' = handedOut /\ regions' = regions
           ELSE IF where = "arena"
           THEN /\ ret' = [op |-> "alloc", where |-> where, addr |-> r.ptr,
                           zero |-> region \cap dirty' = {},
                           disjoint |-> region \cap handedOut = {}]
                /\ handedOut' = handedOut \cup region
                /\ regions < MaxLive
                /\ regions' = regions + 1
           ELSE /\ ret' = [NoRet("alloc") EXCEPT !.where = where, !.addr = r.ptr]
                /\ handedOut' = handedOut
                /\ regions' = regions
        /\ UNCHANGED <<arena, initialTypedSlots, releaseWhenReset>>

\* unsafe.Slice(ptr, cap) faults on a nil pointer with a capacity
SliceFault(r, cap) ==
    IF r.ptr = NilPtr /\ cap # 0
    THEN "unsafe.Slice: ptr is nil and len is not zero" ELSE "none"

New(ty, m) ==
    /\ Returned(Arena_getTyped(ty, 1, m), Size(ty), Size(ty), "none")
    /\ UNCHANGED concVars

NewPOD(ty, m) ==
    /\ ~ Kind(ty) \in {"Ptr", "String", "Slice", "Map", "Chan", "Func"}
    /\ Returned(Arena_getPOD(ty, 1, m), Size(ty), Size(ty), "none")
    /\ UNCHANGED concVars

Make(ty, n, cap, m) ==
    /\ LET r == Arena_getTyped(ty, n, m)
       IN  Returned(r, n * Size(ty), cap * Size(ty), SliceFault(r, cap))
    /\ UNCHANGED concVars

\* monotonicArena.getPOD takes no element count, so only the safe arena
\* serves MakePOD
MakePOD(ty, n, cap, m) ==
    /\ arena = "safe"
    /\ ~ Kind(ty) \in {"Ptr", "String", "Slice", "Map", "Chan", "Func"}
    /\ LET r == Arena_getPOD(ty, n, m)
       IN  Returned(r, n * Size(ty), cap * Size(ty), SliceFault(r, cap))
    /\ UNCHANGED concVars

\* The arena after a Reset whose outcome is r: every region is given up.
Rewound(r) ==
    /\ podSlabs' = r.podSlabs
    /\ typedSlabs' = r.typedSlabs
    /\ buffers' = r.buffers
    /\ dirty' = dirty \ r.zeroed
    /\ handedOut' = {}
    /\ regions' = 0
    /\ ret' = NoRet("Reset")
    /\ fault' = "none"
    /\ UNCHANGED <<arena, initialTypedSlots, releaseWhenReset>>

Reset ==
    /\ Rewound(Arena_Reset)
    /\ UNCHANGED concVars

\* The caller stores a non-zero byte inside a region it holds.
Write(addr) ==
    /\ addr \in handedOut
    /\ Cardinality(dirty) < MaxDirty
    /\ addr \notin dirty
    /\ dirty' = dirty \cup {addr}
    /\ UNCHANGED <<arena, podSlabs, typedSlabs, initialTypedSlots, buffers,
                   releaseWhenReset, handedOut, regions, ret, fault>>
    /\ UNCHANGED concVars

(***************************************************************************)
(* concurrentArena.  A goroutine's call through the wrapper takes the       *)
(* mutex, runs the wrapped arena's method (which reads the arena's fields   *)
(* and later stores them back), and releases the mutex as it returns.       *)
(***************************************************************************)
Goroutines == 1 .. NumGoroutines
Unlocked == 0

\* the types goroutines allocate through the wrapper
WrapperTypes == {Basic("Bool"), Basic("Int"), Basic("Ptr")}

\* a wrapper that layers a second mutex over an existing wrapper
NewConcurrentArena_wrapsAgain(a) == a + 1

\* a is the number of concurrentArena layers of the arena passed in
NewConcurrentArena(a) == IF a >= 1 THEN a ELSE a + 1

\* a Lock that does not wait for the holder
Mutex_CanLock_ignoresHolder(m) == TRUE

\* sync.Mutex.Lock returns only once the mutex is unlocked
Mutex_CanLock(m) == m = Unlocked

Idle == [pc |-> "idle", op |-> "none", ty |-> Basic("Invalid"), n |-> 0, out |-> <<>>]

\* what the wrapped arena's method computes from the arena's fields as they are
WrappedCall(g, m) ==
    CASE goroutine[g].op = "getTyped" ->
           Arena_getTyped(goroutine[g].ty, goroutine[g].n, m)
      [] goroutine[g].op = "getPOD" ->
           Arena_getPOD(goroutine[g].ty, goroutine[g].n, m)
      [] goroutine[g].op = "Reset" -> Arena_Reset

\* the program wraps the arena it holds
CallNewConcurrentArena ==
    /\ calls.wraps < MaxWraps
    /\ handle' = NewConcurrentArena(handle)
    /\ calls' = [calls EXCEPT !.wraps = @ + 1]
    /\ UNCHANGED <<arena, podSlabs, typedSlabs, initialTypedSlots, buffers,
                   releaseWhenReset, handedOut, regions, dirty, ret, fault,
                   mtx, goroutine, acquired>>

\* goroutine g calls a method of the wrapper
Call(g, op, ty, n) ==
    /\ handle >= 1
    /\ goroutine[g].pc = "idle"
    /\ calls.methods < MaxCalls
    /\ goroutine' = [goroutine EXCEPT
                       ![g] = [pc |-> "waiting", op |-> op, ty |-> ty, n |-> n,
                               out |-> <<>>]]
    /\ calls' = [calls EXCEPT !.methods = @ + 1]
    /\ UNCHANGED <<arena, podSlabs, typedSlabs, initialTypedSlots, buffers,
                   releaseWhenReset, handedOut, regions, dirty, ret, fault,
                   handle, mtx, acquired>>

\* a.mtx.Lock()
Lock(g) ==
    /\ goroutine[g].pc = "waiting"
    /\ Mutex_CanLock(mtx)
    /\ mtx' = g
    /\ goroutine' = [goroutine EXCEPT ![g].pc = "locked"]
    /\ acquired' = Append(acquired, g)
    /\ UNCHANGED <<arena, podSlabs, typedSlabs, initialTypedSlots, buffers,
                   releaseWhenReset, handedOut, regions, dirty, ret, fault,
                   handle, calls>>

\* the wrapped method starts: it reads the arena's fields
Enter(g, m) ==
    /\ goroutine[g].pc = "locked"
    /\ goroutine' = [goroutine EXCEPT ![g].pc = "inside", ![g].out = WrappedCall(g, m)]
    /\ UNCHANGED <<arena, podSlabs, typedSlabs, initialTypedSlots, buffers,
                   releaseWhenReset, handedOut, regions, dirty, ret, fault,
                   handle, mtx, acquired, calls>>

\* the wrapped method returns: it has stored the arena's fields
Return(g) ==
    /\ goroutine[g].pc = "inside"
    /\ IF goroutine[g].op = "Reset"
       THEN Rewound(goroutine[g].out)
       ELSE Returned(goroutine[g].out, goroutine[g].n * Size(goroutine[g].ty),
                     goroutine[g].n * Size(goroutine[g].ty), "none")
    /\ goroutine' = [goroutine EXCEPT ![g].pc = "unlocking"]
    /\ acquired' = SelectSeq(acquired, LAMBDA h : h # g)
    /\ UNCHANGED <<handle, mtx, calls>>

\* an Unlock that is not deferred: a fault in the wrapped call passes it by
Unlock_skippedByFault(g) ==
    /\ goroutine[g].pc = "unlocking"
    /\ mtx' = IF fault # "none" THEN mtx ELSE Unlocked
    /\ goroutine' = [goroutine EXCEPT ![g] = Idle]
    /\ UNCHANGED <<arena, podSlabs, typedSlabs, initialTypedSlots, buffers,
                   releaseWhenReset, handedOut, regions, dirty, ret, fault,
                   handle, acquired, calls>>

\* the deferred a.mtx.Unlock()
Unlock(g) ==
    /\ goroutine[g].pc = "unlocking"
    /\ mtx' = Unlocked
    /\ goroutine' = [goroutine EXCEPT ![g] = Idle]
    /\ UNCHANGED <<arena, podSlabs, typedSlabs, initialTypedSlots, buffers,
                   releaseWhenReset, handedOut, regions, dirty, ret, fault,
                   handle, acquired, calls>>

(***************************************************************************)
(* One slab on its own: the requests a slab group can pass to a slab.      *)
(***************************************************************************)
\* what the caller of a slab's method sees
SlabRet(op, ptr) ==
    [NoRet(op) EXCEPT !.where = IF ptr = NilPtr THEN "nil" ELSE "arena", !.addr = ptr]

GetWithAlignment(size, align) ==
    LET r == safeSlab_getWithAlignment(podSlabs.slabs[1], size, align)
    IN  /\ podSlabs' = [podSlabs EXCEPT !.slabs[1] = r.slab]
        /\ ret' = SlabRet("getWithAlignment", r.ptr)
        /\ UNCHANGED <<arena, typedSlabs, initialTypedSlots, buffers,
                       releaseWhenReset, handedOut, regions, dirty, fault>>
        /\ UNCHANGED concVars

GetAlwaysAligned(size) ==
    LET r == safeSlab_getAlwaysAligned(podSlabs.slabs[1], size)
    IN  /\ podSlabs' = [podSlabs EXCEPT !.slabs[1] = r.slab]
        /\ ret' = SlabRet("getAlwaysAligned", r.ptr)
        /\ UNCHANGED <<arena, typedSlabs, initialTypedSlots, buffers,
                       releaseWhenReset, handedOut, regions, dirty, fault>>
        /\ UNCHANGED concVars

SlabReset ==
    /\ podSlabs' = [podSlabs EXCEPT !.slabs[1].offset = 0]
    /\ ret' = NoRet("reset")
    /\ UNCHANGED <<arena, typedSlabs, initialTypedSlots, buffers,
                   releaseWhenReset, handedOut, regions, dirty, fault>>
    /\ UNCHANGED concVars

(***************************************************************************)
(* One monotonic buffer on its own, placed where the runtime chooses when   *)
(* it is first touched.                                                     *)
(***************************************************************************)
\* where the runtime may place the buffer's backing storage: a choice that is
\* made once, when the buffer is first touched
BufferPlacements ==
    IF buffers = <<>> THEN {}
    ELSE IF buffers[1].ptr = NilPtr THEN SlabMisalignChoices ELSE {0}

BufferAlloc(size, alignment, mis) ==
    LET r == monotonicBuffer_alloc(buffers[1], size, alignment, RegionBase(0) + mis)
    IN  /\ buffers' = <<r.buf>>
        /\ ret' = SlabRet("alloc", r.ptr)
        /\ UNCHANGED <<arena, podSlabs, typedSlabs, initialTypedSlots,
                       releaseWhenReset, handedOut, regions, dirty, fault>>
        /\ UNCHANGED concVars

BufferReset ==
    /\ buffers' = <<monotonicBuffer_reset(buffers[1], releaseWhenReset).buf>>
    /\ ret' = NoRet("reset")
    /\ UNCHANGED <<arena, podSlabs, typedSlabs, initialTypedSlots,
                   releaseWhenReset, handedOut, regions, dirty, fault>>
    /\ UNCHANGED concVars

(***************************************************************************)
(* The POD slab group on its own, as MakeSafeArenaWithOptions builds it:    *)
(* any number of allocations between two resets.                            *)
(***************************************************************************)
\* where a slab of the group may start, as its address modulo the largest alignment
PlacedMisalignChoices == {0, 1}

\* the types allocated from the group
GroupTypes == {Basic("Bool"), Basic("Int")}

\* Where the requests made since the last Reset end when they are laid out one
\* after another from an aligned address, each padded to its alignment; a run
\* longer than any slab of the group counts as one byte more than the longest.
RunEnd(r) == IF r.op = "getPOD" THEN r.run ELSE 0

ExtendRun(end, bytes, align) ==
    LET e == RoundUp(end + bytes, align)
    IN  IF e > MaxGroupBytes THEN MaxGroupBytes + 1 ELSE e

\* what the caller of the group's getPOD sees, with whether the group grew and
\* the run of requests the call extends
GroupRet(ptr, grew, run) ==
    [op |-> "getPOD", where |-> IF ptr = NilPtr THEN "nil" ELSE "arena",
     addr |-> ptr, zero |-> TRUE, disjoint |-> TRUE, grew |-> grew, run |-> run]

GroupGetPOD(ty, n, mis) ==
    LET r == safeSlabGroup_getPOD(podSlabs, ty, n, mis)
    IN  /\ Len(r.sg.slabs) <= MaxGroupSlabs
        /\ r.sg.totalBytes <= MaxGroupBytes
        /\ podSlabs' = r.sg
        /\ fault' = r.fault
        /\ ret' = GroupRet(r.ptr, r.grew, ExtendRun(RunEnd(ret), n * Size(ty), Align(ty)))
        /\ UNCHANGED <<arena, typedSlabs, initialTypedSlots, buffers,
                       releaseWhenReset, handedOut, regions, dirty>>
        /\ UNCHANGED concVars

GroupReset ==
    /\ podSlabs' = safeSlabGroup_reset(podSlabs)
    /\ fault' = "none"
    /\ ret' = NoRet("Reset")
    /\ UNCHANGED <<arena, typedSlabs, initialTypedSlots, buffers,
                   releaseWhenReset, handedOut, regions, dirty>>
    /\ UNCHANGED concVars

(***************************************************************************)
(* Pointer detection.                                                      *)
(***************************************************************************)
\* AssertPlainOldData[T]() panics with the problem assertPODImpl reports;
\* what the fast check says of T is recorded beside it.
AssertPlainOldData(ty) ==
    LET problem == assertPODImpl(ty)
    IN  /\ ret' = [op |-> "AssertPlainOldData", ty |-> ty, pod |-> isPOD(ty),
                    problem |-> problem]
        /\ fault' = IF problem # <<>> THEN "type contains pointers" ELSE "none"
        /\ UNCHANGED <<arena, podSlabs, typedSlabs, initialTypedSlots, buffers,
                       releaseWhenReset, handedOut, regions, dirty>>
        /\ UNCHANGED concVars

Start ==
    /\ handedOut = {}
    /\ regions = 0
    /\ dirty = {}
    /\ ret = NoRet("none")
    /\ fault = "none"
    /\ handle = 0
    /\ mtx = Unlocked
    /\ goroutine = [g \in Goroutines |-> Idle]
    /\ acquired = <<>>
    /\ calls = [methods |-> 0, wraps |-> 0]

InitSafe ==
    \E initialBytes \in InitialBytesChoices, slots \in InitialTypedSlotsChoices,
       mis \in BaseMisalign :
        LET a == MakeSafeArenaWithOptions(initialBytes, slots, mis)
        IN  /\ arena = "safe"
            /\ podSlabs = a.podSlabs
            /\ typedSlabs = a.typedSlabs
            /\ initialTypedSlots = a.initialTypedSlots
            /\ buffers = <<>>
            /\ releaseWhenReset = FALSE
            /\ Start

InitMono ==
    \E bufferSize \in BufferSizeChoices, bufferCount \in BufferCountChoices :
        /\ arena = "mono"
        /\ podSlabs = [slabs |-> <<>>, totalBytes |-> 0, firstWithFreeSpace |-> 0]
        /\ typedSlabs = NilMap
        /\ initialTypedSlots = 0
        /\ buffers = NewMonotonicArena(bufferSize, bufferCount)
        /\ releaseWhenReset \in BOOLEAN
        /\ Start

NextSafe ==
    \/ \E ty \in Types, m \in Placements : New(ty, m)
    \/ \E ty \in Types, m \in Placements : NewPOD(ty, m)
    \/ \E ty \in Types, cap \in 0 .. MaxCap, m \in Placements :
          \E n \in 0 .. cap : Make(ty, n, cap, m)
    \/ \E ty \in Types, cap \in 0 .. MaxCap, m \in Placements :
          \E n \in 0 .. cap : MakePOD(ty, n, cap, m)
    \/ \E addr \in handedOut : Write(addr)
    \/ Reset

NextMono ==
    \/ \E ty \in Types, m \in Placements : New(ty, m)
    \/ \E ty \in Types, m \in Placements : NewPOD(ty, m)
    \/ \E ty \in Types, cap \in 0 .. MaxCap, m \in Placements :
          \E n \in 0 .. cap : Make(ty, n, cap, m)
    \/ \E addr \in handedOut : Write(addr)
    \/ Reset

\* goroutines calling through a concurrent wrapper
NextConc ==
    \/ CallNewConcurrentArena
    \/ \E g \in Goroutines, ty \in WrapperTypes, n \in 1 .. MaxCap :
          Call(g, "getTyped", ty, n)
    \/ \E g \in Goroutines, ty \in {t \in WrapperTypes : isPOD(t)} :
          Call(g, "getPOD", ty, 1)
    \/ \E g \in Goroutines : Call(g, "Reset", Basic("Invalid"), 0)
    \/ \E g \in Goroutines : Lock(g)
    \/ \E g \in Goroutines, m \in Placements : Enter(g, m)
    \/ \E g \in Goroutines : Return(g)
    \/ \E g \in Goroutines : Unlock(g)

InitSlab ==
    \E bytes \in SlabBytesChoices, mis \in SlabMisalignChoices :
        /\ arena = "safe"
        /\ podSlabs = [slabs |-> <<makeSafeSlab(1, bytes, 0, mis)>>,
                       totalBytes |-> bytes, firstWithFreeSpace |-> 0]
        /\ typedSlabs = NilMap
        /\ initialTypedSlots = 0
        /\ buffers = <<>>
        /\ releaseWhenReset = FALSE
        /\ Start

NextSlab ==
    \/ \E size \in 0 .. MaxRequest, align \in AlignChoices :
          GetWithAlignment(size, align)
    \/ \E size \in 0 .. MaxRequest : GetAlwaysAligned(size)
    \/ SlabReset

InitGroup ==
    \E initialBytes \in GroupInitialBytesChoices, slots \in InitialTypedSlotsChoices,
       mis \in BaseMisalign :
        LET a == MakeSafeArenaWithOptions(initialBytes, slots, mis)
        IN  /\ arena = "safe"
            /\ podSlabs = a.podSlabs
            /\ typedSlabs = a.typedSlabs
            /\ initialTypedSlots = a.initialTypedSlots
            /\ buffers = <<>>
            /\ releaseWhenReset = FALSE
            /\ Start

NextGroup ==
    \/ \E ty \in GroupTypes, n \in 0 .. MaxCap, mis \in BaseMisalign :
          GroupGetPOD(ty, n, mis)
    \/ GroupReset

\* the POD slab group of a safe arena, serving any requests
SpecGroup == InitGroup /\ [][NextGroup]_vars

\* the same group filling up, when the runtime places its slabs at any address
NextPlaced ==
    \E ty \in GroupTypes, n \in 0 .. MaxPlacedLen, mis \in PlacedMisalignChoices :
        GroupGetPOD(ty, n, mis)

SpecPlaced == InitGroup /\ [][NextPlaced]_vars

NextPOD == \E ty \in AllTypes : AssertPlainOldData(ty)

\* the pointer checks, applied to any type
SpecPOD == InitSafe /\ [][NextPOD]_vars

\* one slab, at any placement, serving any requests
SpecSlab == InitSlab /\ [][NextSlab]_vars

InitBuffer ==
    \E bytes \in SlabBytesChoices :
        /\ arena = "mono"
        /\ podSlabs = [slabs |-> <<>>, totalBytes |-> 0, firstWithFreeSpace |-> 0]
        /\ typedSlabs = NilMap
        /\ initialTypedSlots = 0
        /\ buffers = NewMonotonicArena(bytes, 1)
        /\ releaseWhenReset \in BOOLEAN
        /\ Start

InitBump == InitSlab \/ InitBuffer

NextBump ==
    \/ \E size \in 0 .. MaxRequest, align \in AlignChoices :
          arena = "safe" /\ GetWithAlignment(size, align)
    \/ \E size \in 0 .. MaxRequest : arena = "safe" /\ GetAlwaysAligned(size)
    \/ arena = "safe" /\ SlabReset
    \/ \E size \in 0 .. MaxRequest, align \in AlignChoices, mis \in BufferPlacements :
          arena = "mono" /\ BufferAlloc(size, align, mis)
    \/ arena = "mono" /\ BufferReset

\* one slab or one monotonic buffer, at any placement, serving any requests
SpecBump == InitBump /\ [][NextBump]_vars

\* a safe arena behind the entry points
SpecSafe == InitSafe /\ [][NextSafe]_vars

\* a monotonic arena behind the entry points
SpecMono == InitMono /\ [][NextMono]_vars

\* either arena
InitArena == InitSafe \/ InitMono

\* either arena behind the entry points
SpecArena == InitArena /\ [][NextSafe]_vars

\* either arena behind a concurrent wrapper
SpecConc == InitArena /\ [][NextConc]_vars

\* a call through the wrapper, of the few that are followed to their end
LiveCall(g, op, ty, n) ==
    /\ calls.methods < MaxLive
    /\ Call(g, op, ty, n)

\* the arena is wrapped once
LiveWrap ==
    /\ handle = 0
    /\ CallNewConcurrentArena

NextLive ==
    \/ LiveWrap
    \/ \E g \in Goroutines, ty \in WrapperTypes, n \in 1 .. MaxCap :
          LiveCall(g, "getTyped", ty, n)
    \/ \E g \in Goroutines, ty \in {t \in WrapperTypes : isPOD(t)} :
          LiveCall(g, "getPOD", ty, 1)
    \/ \E g \in Goroutines : LiveCall(g, "Reset", Basic("Invalid"), 0)
    \/ \E g \in Goroutines : Lock(g)
    \/ \E g \in Goroutines, m \in Placements : Enter(g, m)
    \/ \E g \in Goroutines : Return(g)
    \/ \E g \in Goroutines : Unlock(g)

\* The scheduler runs every goroutine that can take a step, and sync.Mutex
\* hands the mutex to a goroutine that keeps waiting for it.
Fairness ==
    \A g \in Goroutines :
        /\ SF_vars(Lock(g))
        /\ WF_vars(\E m \in Placements : Enter(g, m))
        /\ WF_vars(Return(g))
        /\ WF_vars(Unlock(g))

\* either arena behind a concurrent wrapper, under fair scheduling
SpecLive == InitArena /\ [][NextLive]_vars /\ Fairness

(***************************************************************************)
(* Properties.                                                             *)
(***************************************************************************)
\* isMonotonicArenaPtr of the tests: the address lies in a backed buffer
isMonotonicArenaPtr(bufs, ptr) ==
    \E k \in 1 .. Len(bufs) :
        /\ \A j \in 1 .. k : bufs[j].ptr # NilPtr
        /\ ptr >= bufs[k].ptr
        /\ ptr < bufs[k].ptr + bufs[k].size

\* the region lies in the part of one slab or buffer that the cursor has passed
InsideHandedOut(slabs, addr, bytes) ==
    \E k \in 1 .. Len(slabs) :
        /\ slabs[k].buf <= addr
        /\ addr + bytes <= slabs[k].buf + slabs[k].offset
        /\ slabs[k].offset <= slabs[k].size

\* C1: between two resets, the region [addr, addr + n*size) of an allocation
\* shares no byte with the region of any earlier allocation of the same arena.
C1_RegionsDisjoint ==
    (ret.op = "alloc" /\ ret.where = "arena") => ret.disjoint

\* C2: a POD allocation of n elements served by the safe arena's POD group
\* lies inside the handed-out part of one slab: addr + n*size <= buf + offset
\* after the call <= buf + size.
C2_PODRegionInsideSlab ==
    [][\A ty \in Types, cap \in 0 .. MaxCap, m \in Placements :
          \A n \in 0 .. cap :
            (/\ arena = "safe"
             /\ MakePOD(ty, n, cap, m) \/ (isPOD(ty) /\ Make(ty, n, cap, m))
             /\ ret'.where = "arena")
            => InsideHandedOut(podSlabs'.slabs, ret'.addr, n * Size(ty))]_vars

\* C3: a region returned from arena storage reads as all zero when it is
\* returned, whatever allocations, writes and resets came before.
C3_ReturnedRegionIsZero ==
    (ret.op = "alloc" /\ ret.where = "arena") => ret.zero

C5_MonoResetZeroes ==
    [][(arena = "mono" /\ ~releaseWhenReset /\ Reset) =>
         \A k \in 1 .. Len(buffers) :
           /\ buffers'[k].offset = 0
           /\ Range(buffers[k].ptr, buffers[k].offset) \cap dirty' = {}]_vars

\* C6: on a safe arena the retry that follows a growth succeeds: the fault
\* "slab allocation failed!" is never raised.
C6_RetryNeverFails == fault # "slab allocation failed!"

\* C7: when no buffer of a monotonic arena serves a POD request, New and Make
\* raise no fault and return a non-null value of the host heap, outside every
\* buffer.
C7_FallsBackToHeap ==
    arena = "mono" =>
      /\ fault = "none"
      /\ ret.op = "alloc" =>
           /\ ret.where \in {"arena", "heap"}
           /\ ret.where = "heap" => ~isMonotonicArenaPtr(buffers, ret.addr)

\* C8: on a safe arena an allocation of a non-POD type succeeds and is served
\* by the slab group keyed by that type, which exists from then on; no other
\* type's group is touched.
C8_TypedGroupPerType ==
    [][\A ty \in Types, m \in Placements :
          (arena = "safe" /\ ~isPOD(ty) /\ New(ty, m)) =>
            /\ fault' = "none"
            /\ ret'.where = "arena"
            /\ ty \in DOMAIN typedSlabs'.groups
            /\ podSlabs' = podSlabs
            /\ \A t \in DOMAIN typedSlabs.groups \ {ty} :
                  typedSlabs'.groups[t] = typedSlabs.groups[t]]_vars

\* C9: Make(arena, len, cap) reserves room for cap elements: the capacity
\* region [ptr, ptr + cap*size) lies in the part of one buffer that the cursor
\* has passed.
C9_MakeReservesCapacity ==
    [][\A ty \in Types, cap \in 0 .. MaxCap, m \in Placements :
          \A n \in 0 .. cap :
            (arena = "mono" /\ Make(ty, n, cap, m) /\ ret'.where = "arena")
            => InsideHandedOut(
                   [k \in 1 .. Len(buffers') |->
                      [buf |-> buffers'[k].ptr, offset |-> buffers'[k].offset,
                       size |-> buffers'[k].size]],
                   ret'.addr, cap * Size(ty))]_vars

\* the kinds C10 names as not classified as POD
KindsNotPOD == {"Ptr", "String", "Slice", "Map", "Chan", "Func", "Struct"}

\* C10: a typed allocation on a monotonic arena for a pointer, string, slice,
\* map, channel, function or struct type returns storage outside every buffer
\* and leaves every buffer's offset and backing storage as they were.
C10_NonPODBypassesArena ==
    [][\A ty \in {t \in Types : Kind(t) \in KindsNotPOD}, cap \in 0 .. MaxCap,
          m \in Placements :
          \A n \in 0 .. cap :
            (arena = "mono" /\ (New(ty, m) \/ Make(ty, n, cap, m))) =>
              /\ buffers' = buffers
              /\ fault' = "none"
              /\ ret'.where = "heap"
              /\ ~isMonotonicArenaPtr(buffers', ret'.addr)]_vars

\* C10 witness: a call has returned host-heap storage while a buffer of the
\* arena was in use.
C10_Witness ==
    /\ arena = "mono"
    /\ ret.op = "alloc"
    /\ ret.where = "heap"
    /\ \E k \in 1 .. Len(buffers) : buffers[k].offset > 0

\* C11: with a concurrent wrapper around an arena, at most one goroutine at a
\* time is executing inside the wrapped arena's getTyped, getPOD or Reset.
C11_OneGoroutineInside ==
    Cardinality({g \in Goroutines : goroutine[g].pc = "inside"}) <= 1

\* C11 witness: one goroutine is inside the wrapped arena while another has
\* called the wrapper and waits for the mutex.
C11_Witness ==
    \E g \in Goroutines, h \in Goroutines :
        /\ goroutine[g].pc = "inside"
        /\ goroutine[h].pc = "waiting"

\* C12: calls issued concurrently through one wrapper are equivalent to running
\* them one at a time in mutex-acquisition order: the call that returns is the
\* oldest holder of the mutex, what it stores and the pointer it returns are
\* what the method computes from the arena as it is at that moment, and the
\* region it returns shares no byte with a region returned since the last
\* Reset.
C12_SerialInAcquisitionOrder ==
    [][\A g \in Goroutines :
          Return(g) =>
            /\ Head(acquired) = g
            /\ \A m \in Placements : goroutine[g].out = WrappedCall(g, m)
            /\ ret'.where = "arena" => ret'.disjoint]_vars

\* C13: NewConcurrentArena applied to an arena that is already a concurrent
\* wrapper returns that wrapper: however often the program wraps, the arena
\* it holds has one mutex layer.
C13_WrapIdempotent ==
    [][CallNewConcurrentArena =>
         /\ handle' = 1
         /\ handle >= 1 => handle' = handle]_vars

\* C13 witness: NewConcurrentArena has been applied to a wrapper.
C13_Witness ==
    /\ calls.wraps >= 2
    /\ handle = 1

\* C14: for every successful POD allocation from a slab with alignment a and
\* request size s, at any slab base address and any prior offset, the address
\* returned + s is divisible by a.
C14_TrailingEdgeAligned ==
    [][\A size \in 0 .. MaxRequest, align \in AlignChoices :
          (GetWithAlignment(size, align) /\ ret'.addr # NilPtr)
          => (ret'.addr + size) % align = 0]_vars

\* C14 witness: a slab placed at an odd address has served a request whose
\* region does not start at the slab's base and whose cursor now stands on a
\* multiple of the largest alignment.
C14_Witness ==
    /\ ret.op = "getWithAlignment"
    /\ ret.where = "arena"
    /\ podSlabs.slabs[1].buf % 2 = 1
    /\ ret.addr # podSlabs.slabs[1].buf
    /\ (podSlabs.slabs[1].buf + podSlabs.slabs[1].offset) % 8 = 0

\* C15: in every reachable state every slab of a safe arena and every buffer
\* of a monotonic arena has 0 <= offset <= length.
C15_OffsetWithinLength ==
    /\ \A k \in 1 .. Len(podSlabs.slabs) :
          /\ 0 <= podSlabs.slabs[k].offset
          /\ podSlabs.slabs[k].offset <= podSlabs.slabs[k].size
    /\ \A t \in DOMAIN typedSlabs.groups :
          \A k \in 1 .. Len(typedSlabs.groups[t].slabs) :
            /\ 0 <= typedSlabs.groups[t].slabs[k].offset
            /\ typedSlabs.groups[t].slabs[k].offset <= typedSlabs.groups[t].slabs[k].size
    /\ \A k \in 1 .. Len(buffers) :
          /\ 0 <= buffers[k].offset
          /\ buffers[k].offset <= buffers[k].size

\* C15 witness: a safe arena's POD group has grown, has seen an allocation
\* fail on a slab that seemed full, and holds a slab filled to its last byte.
C15_Witness ==
    /\ arena = "safe"
    /\ Len(podSlabs.slabs) > 1
    /\ podSlabs.firstWithFreeSpace > 0
    /\ \E k \in 1 .. Len(podSlabs.slabs) :
          podSlabs.slabs[k].offset = podSlabs.slabs[k].size

\* C16: Reset is idempotent for both arenas: a Reset that directly follows a
\* Reset leaves the slabs, the buffers and the bookkeeping as they are.
C16_ResetIdempotent ==
    [][(ret.op = "Reset" /\ Reset) =>
         /\ podSlabs' = podSlabs
         /\ typedSlabs' = typedSlabs
         /\ buffers' = buffers]_vars

\* the group after its tail slab is removed, as the shrink step leaves it
TailDropped(sg) ==
    [sg EXCEPT !.slabs = SubSeq(@, 1, Len(@) - 1),
               !.totalBytes = @ - sg.slabs[Len(sg.slabs)].size]

\* what the amended C16 allows a Reset that directly follows a Reset to do to
\* a slab group
SecondReset(sg) ==
    IF Len(sg.slabs) > 1 /\ sg.totalBytes > 0 THEN TailDropped(sg) ELSE sg

\* C16 as amended: a Reset that directly follows a Reset leaves a monotonic
\* arena exactly as it is, and leaves every slab group of a safe arena as it
\* is except that a group still holding more than one slab, with a positive
\* byte total, loses its tail slab (its byte total reduced by that slab's
\* size).
C16_SecondResetOnlyShrinks ==
    [][(ret.op = "Reset" /\ Reset) =>
         /\ buffers' = buffers
         /\ dirty' = dirty
         /\ podSlabs' = SecondReset(podSlabs)
         /\ DOMAIN typedSlabs'.groups = DOMAIN typedSlabs.groups
         /\ \A t \in DOMAIN typedSlabs.groups :
               typedSlabs'.groups[t] = SecondReset(typedSlabs.groups[t])]_vars

\* C16 witness: a second Reset in a row has acted on a safe arena whose POD
\* group held several slabs and still holds more than one.
C16_Witness ==
    /\ arena = "safe"
    /\ ret.op = "Reset"
    /\ Len(podSlabs.slabs) > 1
    /\ \A k \in 1 .. Len(podSlabs.slabs) : podSlabs.slabs[k].offset = 0
    /\ podSlabs.totalBytes > 0
    /\ podSlabs.firstWithFreeSpace > 0

\* the region of the slab group g was created with
InitialSlabId(g) == g * (MaxSlabs + 2)

\* the slab a Reset removed from group before, if after is shorter
RemovedByShrink(before, after) ==
    IF Len(after.slabs) < Len(before.slabs)
    THEN {before.slabs[Len(before.slabs)].id} ELSE {}

\* C17: the slab a slab group was created with is never the slab a Reset's
\* shrink step removes, whatever allocations (swaps included) and Resets
\* came before.
C17_InitialSlabRetained ==
    [][GroupReset =>
         InitialSlabId(0) \notin RemovedByShrink(podSlabs, podSlabs')]_vars

\* C18: when a slab group that holds more than one slab has had no
\* allocation since its last Reset, the next Reset leaves it with one slab
\* fewer, so that k consecutive Resets bring a group of k slabs back to a
\* single slab.
C18_IdleResetDropsSlab ==
    (ret.op = "Reset" /\ Len(podSlabs.slabs) > 1) =>
        Len(safeSlabGroup_reset(podSlabs).slabs) = Len(podSlabs.slabs) - 1

RECURSIVE SumSizes(_)
\* the bytes the slabs of a group really hold
SumSizes(slabs) ==
    IF slabs = <<>> THEN 0 ELSE Head(slabs).size + SumSizes(Tail(slabs))

\* the slabs of after that before does not hold
AppendedSlabs(before, after) ==
    {after.slabs[k] : k \in {j \in 1 .. Len(after.slabs) :
        \A i \in 1 .. Len(before.slabs) : before.slabs[i].id # after.slabs[j].id}}

\* C19: a growth of a slab group appends one slab whose byte length is at
\* least the larger of the requested bytes and the summed length of the slabs
\* already in the group, so that the bytes the group holds at least double.
C19_GrowthDoubles ==
    [][\A ty \in GroupTypes, n \in 0 .. MaxCap, mis \in BaseMisalign :
          (GroupGetPOD(ty, n, mis) /\ Len(podSlabs'.slabs) > Len(podSlabs.slabs)) =>
            /\ Cardinality(AppendedSlabs(podSlabs, podSlabs')) = 1
            /\ \A new \in AppendedSlabs(podSlabs, podSlabs') :
                  /\ new.size >= n * Size(ty)
                  /\ new.size >= SumSizes(podSlabs.slabs)
            /\ SumSizes(podSlabs'.slabs) >= 2 * SumSizes(podSlabs.slabs)]_vars

\* C20: a type the fast check isPOD accepts (and that getTyped therefore
\* routes to byte-typed storage) is a type in which the full introspection
\* assertPODImpl finds no problem.
C20_FastCheckImpliesFull ==
    (ret.op = "AssertPlainOldData" /\ ret.pod) => ret.problem = <<>>

\* C20 witness: both checks have accepted an array of arrays.
C20_Witness ==
    /\ ret.op = "AssertPlainOldData"
    /\ ret.pod
    /\ Kind(ret.ty) = "Array"
    /\ Kind(Elem(ret.ty)) = "Array"

\* the kinds the specification lists as holding pointers
PointerBearingKinds == {"Slice", "String", "Interface", "Chan", "Func", "Map",
                        "Ptr", "UnsafePointer"}

RECURSIVE ReachesPointer(_)
\* a pointer-bearing kind is reachable from ty through array elements and
\* struct fields
ReachesPointer(ty) ==
    \/ Kind(ty) \in PointerBearingKinds
    \/ (Kind(ty) = "Array" /\ ReachesPointer(Elem(ty)))
    \/ (Kind(ty) = "Struct"
        /\ \E i \in 1 .. Len(ty.fields) : ReachesPointer(ty.fields[i]))

\* C21: AssertPlainOldData[T] returns normally exactly when no slice, string,
\* interface, channel, function, map, pointer or unsafe pointer is reachable
\* from T through array element types and struct field types; otherwise it
\* raises a fault.
C21_ReturnsIffPointerFree ==
    ret.op = "AssertPlainOldData" =>
        ((fault = "none") <=> ~ReachesPointer(ret.ty))

\* C21 witness: the assertion has faulted on a struct whose first field is
\* free of pointers and whose second field holds one.
C21_Witness ==
    /\ ret.op = "AssertPlainOldData"
    /\ fault # "none"
    /\ Kind(ret.ty) = "Struct"
    /\ Len(ret.ty.fields) = 2
    /\ ~ReachesPointer(ret.ty.fields[1])
    /\ ReachesPointer(ret.ty.fields[2])

\* the first field, in declaration order, from which a pointer is reachable
FirstPointerField(ty) ==
    CHOOSE i \in 1 .. Len(ty.fields) :
        /\ ReachesPointer(ty.fields[i])
        /\ \A j \in 1 .. (i - 1) : ~ReachesPointer(ty.fields[j])

RECURSIVE MessageFor(_)
\* the message the specification gives for a type from which a pointer is
\* reachable: "type <T> contains pointers" for the first pointer-bearing
\* component, under one heading per enclosing array and struct
MessageFor(ty) ==
    CASE Kind(ty) = "Array" -> <<"array element ">> \o MessageFor(Elem(ty))
      [] Kind(ty) = "Struct" ->
            LET i == FirstPointerField(ty)
            IN  <<"struct ">> \o TypeString(ty) \o <<" field ">>
                \o FormatQ(FieldNames[i]) \o <<": ">> \o MessageFor(ty.fields[i])
      [] OTHER -> <<"type ">> \o TypeString(ty) \o <<" contains pointers">>

\* C22: when AssertPlainOldData fails, its message is "type <T> contains
\* pointers" for the first pointer-bearing component in declaration order,
\* prefixed from the outside in by "array element " for each enclosing array
\* and by 'struct <S> field "<name>": ' for each enclosing struct.
C22_MessageNamesFirstComponent ==
    (ret.op = "AssertPlainOldData" /\ fault # "none") =>
        ret.problem = MessageFor(ret.ty)

\* the slabs of a group at positions [0, firstWithFreeSpace) that the group
\* still holds
BelowFirstLive(sg) ==
    {k \in 1 .. Len(sg.slabs) : k <= sg.firstWithFreeSpace}

\* C23: in every reachable state of a slab group the first-live index
\* firstWithFreeSpace is at most the number of slabs, and every slab at a
\* position in [0, firstWithFreeSpace) reports seems-full.
C23_FullBelowFirstLive ==
    /\ podSlabs.firstWithFreeSpace <= Len(podSlabs.slabs)
    /\ \A k \in BelowFirstLive(podSlabs) : safeSlab_seemsFull(podSlabs.slabs[k])

\* the slab groups a safe arena holds: the POD group and every typed group
SlabGroups == {podSlabs} \cup {typedSlabs.groups[t] : t \in DOMAIN typedSlabs.groups}

\* C24: in every reachable state of every slab group of a safe arena, the
\* totalBytes field equals the sum of the lengths of the slabs the group
\* holds, from construction onward and across growths and shrinks.
C24_TotalBytesIsSumOfLengths ==
    arena = "safe" => \A sg \in SlabGroups : sg.totalBytes = SumSizes(sg.slabs)

\* the request and its padding fit in what is left of the slab
HasRoom(s, bytes, align) ==
    LET end == s.buf + s.offset + bytes
        padding == (align - (end % align)) % align
    IN  bytes + padding <= s.size - s.offset

\* the positions [firstWithFreeSpace, end) of a group, counted from 1
LivePositions(sg) == {k \in 1 .. Len(sg.slabs) : k > sg.firstWithFreeSpace}

\* One scan of the group, from sg to the outcome r: the slabs below the
\* first-live index stay where they are, the slabs from it on are the same
\* slabs afterwards, and a null result means none of them had room.
ScanComplete(sg, r, bytes, align) ==
    /\ Len(r.sg.slabs) = Len(sg.slabs)
    /\ \A k \in BelowFirstLive(sg) : r.sg.slabs[k] = sg.slabs[k]
    /\ {r.sg.slabs[k].id : k \in LivePositions(sg)} = {sg.slabs[k].id : k \in LivePositions(sg)}
    /\ r.ptr = NilPtr =>
          /\ {r.sg.slabs[k] : k \in LivePositions(sg)} = {sg.slabs[k] : k \in LivePositions(sg)}
          /\ \A k \in LivePositions(sg) : ~HasRoom(sg.slabs[k], bytes, align)

\* C25: a slab-group allocation attempt returns null only if none of the
\* slabs at positions [firstWithFreeSpace, end) has room for the request:
\* every such slab is attempted, and the swaps of seems-full slabs to the
\* front never cause a slab of that range to be skipped, lost or duplicated.
\* Checked of the scan each getPOD begins with, and of the unaligned scan of
\* the same group for the same bytes.
C25_NullOnlyWhenNoRoom ==
    [][\A ty \in GroupTypes, n \in 0 .. MaxCap, mis \in BaseMisalign :
          GroupGetPOD(ty, n, mis) =>
              /\ ScanComplete(podSlabs,
                              safeSlabGroup_getWithAlignment(podSlabs, Size(ty), Align(ty)),
                              Size(ty), Align(ty))
              /\ ScanComplete(podSlabs,
                              safeSlabGroup_getAlwaysAligned(podSlabs, Size(ty)),
                              Size(ty), 1)]_vars

\* C25 witness: an attempt has returned null and the group has grown, in a
\* group whose scans have swapped a later slab in front of the slab the group
\* was created with.
C25_Witness ==
    /\ ret.op = "getPOD"
    /\ ret.grew
    /\ fault = "none"
    /\ podSlabs.firstWithFreeSpace >= 1
    /\ Len(podSlabs.slabs) >= 3
    /\ podSlabs.slabs[1].id # InitialSlabId(0)

\* C26: a slab-group reset removes exactly the slab at the last position when
\* the group holds more than one slab and the summed high-water marks of its
\* slabs are less than one quarter of the group's total slab bytes; otherwise
\* it removes no slab; it never removes more than one slab and never leaves
\* the group with zero slabs.
C26_ResetDropsTailWhenIdle ==
    LET before == podSlabs
        after == safeSlabGroup_reset(podSlabs)
        idle == /\ Len(before.slabs) > 1
                /\ SumOffsets(before.slabs) * 4 < SumSizes(before.slabs)
        kept == IF idle THEN Len(before.slabs) - 1 ELSE Len(before.slabs)
    IN  /\ Len(after.slabs) = kept
        /\ Len(after.slabs) >= 1
        /\ \A k \in 1 .. kept : after.slabs[k].id = before.slabs[k].id

\* C27: a fresh POD slab of at least (n+1)*size bytes with offset 0 always
\* serves the triggering request of n elements of the given size and
\* alignment, whatever the slab's base address is modulo the alignment: when
\* getPOD grows the group, the retry is served from the slab just appended.
C27_FreshSlabServes ==
    [][(ret'.op = "getPOD" /\ ret'.grew) =>
          /\ fault' = "none"
          /\ ret'.addr \in LastSlabBytes(podSlabs')]_vars

\* C28: on a safe-arena slab group, a run of allocations whose total padded
\* size fits within one slab of the group never appends a new slab, in any
\* reset epoch: when a call grows the group, the requests made since the last
\* Reset, this one included, are longer than every slab the group held.
C28_FittingRunNeverGrows ==
    [][(ret'.op = "getPOD" /\ ret'.grew) =>
          \A k \in 1 .. Len(podSlabs.slabs) : ret'.run > podSlabs.slabs[k].size]_vars

\* where buffer i of a monotonic arena starts: its backing storage, or the
\* place the runtime gives it when it is first touched
BufferStart(bufs, i, m) ==
    IF bufs[i].ptr = NilPtr THEN RegionBase(i - 1) + m[i] ELSE bufs[i].ptr

\* the padding that brings the next free byte of buffer i to the alignment
BufferPadding(bufs, i, align, m) ==
    (align - ((BufferStart(bufs, i, m) + bufs[i].offset) % align)) % align

\* the buffers that have room for the request and its padding
BuffersWithRoom(bufs, bytes, align, m) ==
    {i \in 1 .. Len(bufs) :
        bytes + BufferPadding(bufs, i, align, m) <= bufs[i].size - bufs[i].offset}

\* A request of the monotonic arena is served by the lowest-index buffer that
\* has room: that buffer's offset advances by the request and its padding,
\* the pointer lies past the padding, and every other offset is unchanged;
\* with no such buffer the result is null and no offset moves.
ServedByFirstWithRoom(bytes, align, m) ==
    LET room == BuffersWithRoom(buffers, bytes, align, m)
        r == monotonicArena_getPOD(bytes, align, m)
    IN  /\ (r.ptr = NilPtr) <=> (room = {})
        /\ \A i \in 1 .. Len(buffers) :
              IF i \in room /\ \A j \in room : i <= j
              THEN LET padding == BufferPadding(buffers, i, align, m)
                   IN  /\ buffers'[i].offset = buffers[i].offset + bytes + padding
                       /\ r.ptr = BufferStart(buffers, i, m) + buffers[i].offset + padding
                       /\ (fault' = "none" => ret'.addr = r.ptr)
              ELSE buffers'[i].offset = buffers[i].offset

\* C29: a monotonic arena POD allocation is served by the lowest-index buffer
\* that has room for the request plus its alignment padding, leaving all
\* other buffers' offsets unchanged, and returns null only when no buffer has
\* room.
C29_FirstBufferWithRoomServes ==
    [][\A ty \in {t \in Types : isPOD(t)}, m \in Placements :
          /\ New(ty, m) => ServedByFirstWithRoom(Size(ty), Align(ty), m)
          /\ NewPOD(ty, m) => ServedByFirstWithRoom(Size(ty), Align(ty), m)
          /\ \A cap \in 0 .. MaxCap, n \in 0 .. MaxCap :
                (n <= cap /\ Make(ty, n, cap, m)) =>
                    ServedByFirstWithRoom(n * Size(ty), Align(ty), m)]_vars

\* C29 witness: the second buffer has served a request for which the first
\* buffer, though not full, had no room.
C29_Witness ==
    /\ arena = "mono"
    /\ Len(buffers) = 2
    /\ ret.op = "alloc"
    /\ ret.where = "arena"
    /\ buffers[2].ptr # NilPtr
    /\ buffers[2].offset > 0
    /\ ret.addr \in Range(buffers[2].ptr, buffers[2].size)
    /\ buffers[1].offset > 0
    /\ buffers[1].offset < buffers[1].size

\* the padding a monotonic buffer puts before a region to align its start
FrontPadding(s, base, align) ==
    LET start == IF s.ptr = NilPtr THEN base ELSE s.ptr
    IN  (align - ((start + s.offset) % align)) % align

\* the padding a slab adds to a region to align its end
EndPadding(s, bytes, align) ==
    (align - ((s.buf + s.offset + bytes) % align)) % align

\* A bump allocation of bytes with padding, from offset before to offset
\* after in storage of the given length: it succeeds exactly when the padded
\* request fits in what is left, then the offset advances by the padded
\* request, and otherwise the offset stays.
ExactBump(served, before, after, length, bytes, padding) ==
    /\ served <=> (bytes + padding <= length - before)
    /\ after = IF served THEN before + bytes + padding ELSE before
    /\ (bytes + padding = length - before) => (served /\ after = length)
    /\ (bytes + padding = length - before + 1) => (~served /\ after = before)

\* C30: an allocation from a monotonic buffer or a safe-arena slab succeeds
\* exactly when request size plus alignment padding <= length - offset: a
\* request whose padded size equals the remaining bytes succeeds and leaves
\* offset = length, and a request one byte larger fails and leaves the offset
\* unchanged.
C30_SucceedsIffPaddedRequestFits ==
    [][\A size \in 0 .. MaxRequest, align \in AlignChoices :
          /\ (arena = "safe" /\ GetWithAlignment(size, align)) =>
                ExactBump(ret'.addr # NilPtr, podSlabs.slabs[1].offset,
                          podSlabs'.slabs[1].offset, podSlabs.slabs[1].size,
                          size, EndPadding(podSlabs.slabs[1], size, align))
          /\ (arena = "safe" /\ GetAlwaysAligned(size)) =>
                ExactBump(ret'.addr # NilPtr, podSlabs.slabs[1].offset,
                          podSlabs'.slabs[1].offset, podSlabs.slabs[1].size,
                          size, 0)
          /\ \A mis \in BufferPlacements :
                (arena = "mono" /\ BufferAlloc(size, align, mis)) =>
                    ExactBump(ret'.addr # NilPtr, buffers[1].offset,
                              buffers'[1].offset, buffers[1].size, size,
                              FrontPadding(buffers[1], RegionBase(0) + mis, align))]_vars

\* C30 witness: a monotonic buffer placed at an odd address has served a
\* request that took exactly the bytes that were left after earlier ones.
C30_Witness ==
    /\ arena = "mono"
    /\ ret.op = "alloc"
    /\ ret.where = "arena"
    /\ buffers[1].ptr % 2 = 1
    /\ ret.addr > buffers[1].ptr
    /\ buffers[1].offset = buffers[1].size

\* C31: every non-null pointer returned by a monotonic buffer's
\* alloc(size, alignment) has an address divisible by alignment, for any
\* buffer base address, any prior offset and any size.
C31_StartAligned ==
    [][\A size \in 0 .. MaxRequest, align \in AlignChoices, mis \in BufferPlacements :
          (arena = "mono" /\ BufferAlloc(size, align, mis) /\ ret'.addr # NilPtr)
          => ret'.addr % align = 0]_vars

\* C31 witness: a buffer placed at an odd address, with some of its bytes
\* already taken, has returned a pointer on a multiple of the largest
\* alignment and still has bytes left.
C31_Witness ==
    /\ arena = "mono"
    /\ ret.op = "alloc"
    /\ ret.where = "arena"
    /\ buffers[1].ptr % 2 = 1
    /\ ret.addr % 8 = 0
    /\ ret.addr > buffers[1].ptr + 1
    /\ buffers[1].offset < buffers[1].size

\* the offsets of every buffer of a monotonic arena
BufferOffsets(bufs) == [k \in 1 .. Len(bufs) |-> bufs[k].offset]

\* a call has succeeded and has moved no offset
SucceedsInPlace ==
    /\ fault' = "none"
    /\ BufferOffsets(buffers') = BufferOffsets(buffers)
    /\ \A k \in 1 .. Len(podSlabs.slabs) :
          \E j \in 1 .. Len(podSlabs'.slabs) : podSlabs'.slabs[j] = podSlabs.slabs[k]
    /\ Len(podSlabs'.slabs) = Len(podSlabs.slabs)
    /\ typedSlabs' = typedSlabs

\* C32: a zero-length slice allocation (element count 0) on a monotonic arena
\* or a safe arena succeeds and leaves every buffer's and slab's offset
\* unchanged, whatever the current offsets and the element type's size and
\* alignment are.
C32_EmptySliceTakesNoBytes ==
    [][\A ty \in {t \in Types : isPOD(t)}, m \in Placements :
          /\ Make(ty, 0, 0, m) => SucceedsInPlace
          /\ MakePOD(ty, 0, 0, m) => SucceedsInPlace]_vars

\* C33: after Reset of a monotonic arena created with discard, every buffer
\* has no backing storage (its pointer is nil) and offset 0, whatever
\* allocations, including failed ones, preceded the Reset; the buffer count
\* is unchanged.
C33_DiscardReleasesEveryBuffer ==
    [][(arena = "mono" /\ releaseWhenReset /\ Reset) =>
          /\ Len(buffers') = Len(buffers)
          /\ \A k \in 1 .. Len(buffers') :
                buffers'[k].ptr = NilPtr /\ buffers'[k].offset = 0]_vars

\* goroutine g is between a.mtx.Lock() and the deferred a.mtx.Unlock()
InCall(g) == goroutine[g].pc \in {"locked", "inside", "unlocking"}

\* C34: the concurrent wrapper's mutex is released whenever a wrapped call
\* returns or raises a fault, so no call leaves the mutex held and, under fair
\* scheduling, every goroutine blocked on the wrapper eventually acquires the
\* mutex and completes its call.
C34_MutexReleasedCallsComplete ==
    /\ [](\A g \in Goroutines : (mtx = g) <=> InCall(g))
    /\ \A g \in Goroutines : (goroutine[g].pc = "waiting") ~> (mtx = g)
    /\ \A g \in Goroutines : (mtx = g) ~> (goroutine[g].pc = "idle" /\ mtx # g)

\* C34 witness: a goroutine holds the mutex after the call before it raised a
\* fault.
C34_Witness ==
    /\ fault # "none"
    /\ calls.methods = 2
    /\ \E g \in Goroutines : mtx = g /\ goroutine[g].pc = "locked"

====
